---- MODULE Spec2Model ----
(***************************************************************************)
(* Model of the intrusive linked stack of src/src/structures/Stack.ts.     *)
(*                                                                         *)
(* A node is an object with one mutable field, parent.  A stack is an      *)
(* object with the fields top and count.  The heap of node objects is the  *)
(* function parent (node -> reference), the stack objects are the function *)
(* stack (handle -> [top, count]).  Every exported function of the source  *)
(* is an operator on these values; every call a client can make is an      *)
(* action that applies the operator and records the call in last.          *)
(***************************************************************************)
EXTENDS Integers, Sequences, FiniteSets, TLC

\* Bounds of the model: how many node objects and stack objects a client
\* allocates.
NumNodes == 3
NumStacks == 2

Nodes == 1..NumNodes
Stacks == 1..NumStacks

\* const sentinel = void 0: the one "no reference" value.
sentinel == 0

Ref == Nodes \cup {sentinel}

\* Every loop of the source walks parent links over at most NumNodes node
\* objects.  A walk that takes more than Fuel steps has visited some node
\* twice with the links unchanged, so it never ends; the operators report
\* that as done = FALSE instead of a value.
Fuel == NumNodes + 1

VARIABLES
  parent,   \* parent[n]: the parent field of node object n (created nodes only)
  stack,    \* stack[s]: the stack object s, [top, count] (created stacks only)
  last,     \* the last call: its name, arguments, result and the state before it
  pushed,   \* pushed[s]: the nodes the client pushed on s and has not removed
            \* since, oldest first (the client's own record of its calls)
  iter      \* the one stackIterator sequence the client holds half-consumed

vars == <<parent, stack, last, pushed, iter>>

Front(seq) == SubSeq(seq, 1, Len(seq) - 1)

Elems(seq) == {seq[i] : i \in DOMAIN seq}

-----------------------------------------------------------------------------
(* The functions of the source.                                            *)

\* guard<T>(x) of @cosmicmind/foundationjs, used with no keys: x is a value
\* (neither undefined nor null).
guard(n) == n # sentinel

\* a === b ? 0 : a > b ? 1 : -1.  The operands are node objects: a > b
\* compares their primitive values, which for plain records are the same
\* string, so the relational test is false and distinct nodes give -1.
ObjectGreater(a, b) == FALSE

StackCompareFn(a, b) ==
  IF a = b THEN 0 ELSE IF ObjectGreater(a, b) THEN 1 ELSE -1

\* stackNodeCreate: the parent field of a new node.
stackNodeCreate == sentinel

\* stackCreate: a new stack object.
stackCreate == [top |-> sentinel, count |-> 0]

\* stackPeek(stack)
stackPeek(stk) == stk.top

\* Variant of stackPush that forgets ++stack.count.
stackPush_NoCount(par, stk, node) ==
  [parent |-> [par EXCEPT ![node] = stk.top],
   stack |-> [stk EXCEPT !.top = node]]

\* Variant of stackPush that links the old top to the node instead of the
\* node to the old top.
stackPush_LinksDownward(par, stk, node) ==
  [parent |-> IF guard(stk.top) THEN [par EXCEPT ![stk.top] = node] ELSE par,
   stack |-> [top |-> node, count |-> stk.count + 1]]

\* Variant of stackPush that forgets node.parent = stack.top.
stackPush_KeepsParent(par, stk, node) ==
  [parent |-> par,
   stack |-> [top |-> node, count |-> stk.count + 1]]

\* Variant of stackPush that assigns stack.top before node.parent, so that
\* the node becomes its own parent.
stackPush_TopFirst(par, stk, node) ==
  [parent |-> [par EXCEPT ![node] = node],
   stack |-> [top |-> node, count |-> stk.count + 1]]

\* stackPush(stack, node): the heap and the stack object after the call.
stackPush(par, stk, node) ==
  LET par1 == [par EXCEPT ![node] = stk.top]          \* node.parent = stack.top
      stk1 == [stk EXCEPT !.top = node]               \* stack.top = node
      stk2 == [stk1 EXCEPT !.count = stk1.count + 1]  \* ++stack.count
  IN  [parent |-> par1, stack |-> stk2]

\* Variant of stackPop that resets n.parent before reading it into
\* stack.top, which drops the rest of the chain.
stackPop_ResetFirst(par, stk) ==
  LET n == stk.top
  IN  IF guard(n)
        THEN [parent |-> [par EXCEPT ![n] = sentinel],
              stack |-> [top |-> sentinel, count |-> stk.count - 1],
              ret |-> n]
        ELSE [parent |-> par, stack |-> stk, ret |-> n]

\* Variant of stackPop that forgets --stack.count.
stackPop_NoDecrement(par, stk) ==
  LET n == stk.top
  IN  IF guard(n)
        THEN [parent |-> [par EXCEPT ![n] = sentinel],
              stack |-> [stk EXCEPT !.top = par[n]],
              ret |-> n]
        ELSE [parent |-> par, stack |-> stk, ret |-> n]

\* Variant of stackPop that leaves n.parent as it was.
stackPop_KeepsParent(par, stk) ==
  LET n == stk.top
  IN  IF guard(n)
        THEN [parent |-> par,
              stack |-> [top |-> par[n], count |-> stk.count - 1],
              ret |-> n]
        ELSE [parent |-> par, stack |-> stk, ret |-> n]

\* Variant of stackPop that decrements count outside the guard.
stackPop_CountUnguarded(par, stk) ==
  LET n == stk.top
  IN  IF guard(n)
        THEN [parent |-> [par EXCEPT ![n] = sentinel],
              stack |-> [top |-> par[n], count |-> stk.count - 1],
              ret |-> n]
        ELSE [parent |-> par, stack |-> [stk EXCEPT !.count = @ - 1], ret |-> n]

\* stackPop(stack): the heap and the stack object after the call, and the
\* returned reference.
stackPop(par, stk) ==
  LET n == stk.top
  IN  IF guard(n)
        THEN LET stk1 == [stk EXCEPT !.top = par[n]]             \* stack.top = n.parent
                 par1 == [par EXCEPT ![n] = sentinel]            \* n.parent = sentinel
                 stk2 == [stk1 EXCEPT !.count = stk1.count - 1]  \* --stack.count
             IN  [parent |-> par1, stack |-> stk2, ret |-> n]
        ELSE [parent |-> par, stack |-> stk, ret |-> n]

\* The loop of stackIterator / stackIterateFrom / stackIterateToParent run to
\* its end with no call in between: while (guard(n)) { yield n; n = n.parent }.
RECURSIVE IterateLoop(_, _, _, _)
IterateLoop(par, n, yielded, fuel) ==
  IF ~guard(n) THEN [done |-> TRUE, val |-> yielded]
  ELSE IF fuel = 0 THEN [done |-> FALSE, val |-> yielded]
  ELSE IterateLoop(par, par[n], Append(yielded, n), fuel - 1)

\* stackIterator(stack): let node = stack.top, then the loop.
stackIterator(par, stk) == IterateLoop(par, stk.top, <<>>, Fuel)

\* stackIterateFrom(node): let n = node, then the loop.
stackIterateFrom(par, node) == IterateLoop(par, node, <<>>, Fuel)

\* Variant of stackIterateToParent that starts at node, as stackIterateFrom
\* does.
stackIterateToParent_FromNode(par, node) == IterateLoop(par, node, <<>>, Fuel)

\* stackIterateToParent(node): let n = node.parent, then the loop.
stackIterateToParent(par, node) == IterateLoop(par, par[node], <<>>, Fuel)

\* stackClear(stack): while (guard(stack.top)) stackPop(stack).
RECURSIVE ClearLoop(_, _, _)
ClearLoop(par, stk, fuel) ==
  IF ~guard(stk.top) THEN [done |-> TRUE, parent |-> par, stack |-> stk]
  ELSE IF fuel = 0 THEN [done |-> FALSE, parent |-> par, stack |-> stk]
  ELSE LET r == stackPop(par, stk)
       IN  ClearLoop(r.parent, r.stack, fuel - 1)

\* Variant of stackClear that resets the stack object and pops nothing.
stackClear_ResetOnly(par, stk) ==
  [done |-> TRUE, parent |-> par, stack |-> [top |-> sentinel, count |-> 0]]

stackClear(par, stk) == ClearLoop(par, stk, Fuel)

\* stackDepth(node): let n = node.parent, depth = 0;
\* while (guard(n)) { ++depth; n = n.parent }; return depth.
RECURSIVE DepthLoop(_, _, _, _)
DepthLoop(par, n, depth, fuel) ==
  IF ~guard(n) THEN [done |-> TRUE, val |-> depth]
  ELSE IF fuel = 0 THEN [done |-> FALSE, val |-> depth]
  ELSE DepthLoop(par, par[n], depth + 1, fuel - 1)

\* Variant of stackDepth that starts its walk at node instead of node.parent.
stackDepth_FromNode(par, node) == DepthLoop(par, node, 0, Fuel)

\* Variant of stackDepth that starts with depth = 1.
stackDepth_StartsAtOne(par, node) == DepthLoop(par, par[node], 1, Fuel)

stackDepth(par, node) == DepthLoop(par, par[node], 0, Fuel)

\* stackIsTop(stack, node, compare = StackCompareFn)
stackIsTop(stk, node) ==
  guard(stk.top) /\ 0 = StackCompareFn(stk.top, node)

\* stackHas(stack, node, compare = StackCompareFn):
\* for (const n of stackIterator(stack)) if (0 === compare(n, node)) return true;
\* return false.
RECURSIVE HasLoop(_, _, _, _)
HasLoop(par, n, node, fuel) ==
  IF ~guard(n) THEN [done |-> TRUE, val |-> FALSE]
  ELSE IF 0 = StackCompareFn(n, node) THEN [done |-> TRUE, val |-> TRUE]
  ELSE IF fuel = 0 THEN [done |-> FALSE, val |-> FALSE]
  ELSE HasLoop(par, par[n], node, fuel - 1)

\* Variant of stackHas that walks stackIterateToParent(stack.top), which
\* leaves out the top.
stackHas_SkipsTop(par, stk, node) ==
  IF guard(stk.top) THEN HasLoop(par, par[stk.top], node, Fuel)
  ELSE [done |-> TRUE, val |-> FALSE]

stackHas(par, stk, node) == HasLoop(par, stk.top, node, Fuel)

\* The predicates a client passes to stackQuery, by name, and what each
\* returns for a node.  Node n stands for a record whose fields make "odd"
\* true for n = 1, 3, ...
PredNames == {"true", "false", "odd"}

Holds(f, n) ==
  CASE f = "true" -> TRUE
    [] f = "false" -> FALSE
    [] f = "odd" -> n % 2 = 1

\* The inner loop of stackQuery: for (const f of fn) { if (f(n)) continue;
\* continue loop }; TRUE when it falls through to r.add(n).
RECURSIVE PassesAll(_, _, _)
PassesAll(fn, i, n) ==
  IF i > Len(fn) THEN TRUE
  ELSE IF Holds(fn[i], n) THEN PassesAll(fn, i + 1, n)
  ELSE FALSE

\* The outer loop of stackQuery over stackIterator(stack).
RECURSIVE QueryLoop(_, _, _, _, _)
QueryLoop(par, n, fn, r, fuel) ==
  IF ~guard(n) THEN [done |-> TRUE, val |-> r]
  ELSE IF fuel = 0 THEN [done |-> FALSE, val |-> r]
  ELSE QueryLoop(par, par[n], fn,
                 IF PassesAll(fn, 1, n) THEN r \cup {n} ELSE r, fuel - 1)

\* Variant of stackQuery that keeps a node as soon as one predicate holds.
stackQuery_AnyPredicate(par, stk, fn) ==
  LET all == stackIterator(par, stk)
  IN  [done |-> all.done,
       val |-> {n \in Elems(all.val) : \E i \in DOMAIN fn : Holds(fn[i], n)}]

\* stackQuery(stack, ...fn)
stackQuery(par, stk, fn) == QueryLoop(par, stk.top, fn, {}, Fuel)

-----------------------------------------------------------------------------
(* The client.                                                             *)

AllocNodes == DOMAIN parent
AllocStacks == DOMAIN stack

\* The set of nodes reached from reference n by parent links, n included,
\* as a least fixed point (not as a walk).
RECURSIVE Closure(_, _, _)
Closure(par, set, fuel) ==
  LET next == (set \cup {par[m] : m \in set}) \ {sentinel}
  IN  IF next = set \/ fuel = 0 THEN set ELSE Closure(par, next, fuel - 1)

Reach(par, n) == IF n = sentinel THEN {} ELSE Closure(par, {n}, Fuel)

\* A node is linked when it is reachable from the top of some stack.
Linked(x) == \E s \in AllocStacks : x \in Reach(parent, stack[s].top)

\* The state the calls read and write.
Snapshot == [parent |-> parent, stack |-> stack, pushed |-> pushed]

Call(op, s, x, ret, ok) ==
  [op |-> op, s |-> s, x |-> x, ret |-> ret, ok |-> ok, pre |-> Snapshot,
   chained |-> FALSE, pre2 |-> Snapshot]

EmptySnapshot == [parent |-> <<>>, stack |-> <<>>, pushed |-> <<>>]

\* No stackIterator sequence is held.
NoIter == [phase |-> "none"]

\* The calls below are complete calls: they neither advance a held sequence
\* nor push a linked node.
Idle == UNCHANGED iter

\* The argument lists a client passes to stackQuery: no predicate, one, two.
QueryInputs ==
  {<<>>} \cup {<<f>> : f \in PredNames} \cup {<<f, g>> : f, g \in PredNames}

Init ==
  /\ parent = <<>>
  /\ stack = <<>>
  /\ last = [op |-> "init", s |-> 0, x |-> sentinel, ret |-> 0, ok |-> TRUE,
             pre |-> EmptySnapshot, chained |-> FALSE, pre2 |-> EmptySnapshot]
  /\ pushed = <<>>
  /\ iter = NoIter

\* const node = stackNodeCreate()
NodeCreate ==
  /\ Cardinality(AllocNodes) < NumNodes
  /\ LET x == Cardinality(AllocNodes) + 1
     IN  /\ parent' = Append(parent, stackNodeCreate)
         /\ last' = Call("nodeCreate", 0, x, x, TRUE)
  /\ UNCHANGED <<stack, pushed>>

\* const stack = stackCreate()
Create ==
  /\ Cardinality(AllocStacks) < NumStacks
  /\ LET s == Cardinality(AllocStacks) + 1
     IN  /\ stack' = Append(stack, stackCreate)
         /\ pushed' = Append(pushed, <<>>)
         /\ last' = Call("create", s, sentinel, 0, TRUE)
  /\ UNCHANGED parent

\* Variant of the push whose count is one number shared by all stacks.
Push_SharedCount(s, x) ==
  /\ ~Linked(x)
  /\ LET r == stackPush(parent, stack[s], x)
     IN  /\ parent' = r.parent
         /\ stack' = [u \in DOMAIN stack |->
                        [top |-> IF u = s THEN r.stack.top ELSE stack[u].top,
                         count |-> stack[u].count + 1]]
  /\ last' = Call("push", s, x, 0, TRUE)
  /\ pushed' = [pushed EXCEPT ![s] = Append(@, x)]

\* stackPush(stack, x) with x unlinked (correct usage).
Push(s, x) ==
  /\ ~Linked(x)
  /\ LET r == stackPush(parent, stack[s], x)
     IN  /\ parent' = r.parent
         /\ stack' = [stack EXCEPT ![s] = r.stack]
  /\ last' = Call("push", s, x, 0, TRUE)
  /\ pushed' = [pushed EXCEPT ![s] = Append(@, x)]

\* stackPop(stack)
Pop(s) ==
  LET r == stackPop(parent, stack[s])
  IN  /\ parent' = r.parent
      /\ stack' = [stack EXCEPT ![s] = r.stack]
      /\ last' = [Call("pop", s, sentinel, r.ret, TRUE) EXCEPT
                    !.chained = (last.op = "push" /\ last.s = s),
                    !.x = IF last.op = "push" /\ last.s = s THEN last.x ELSE sentinel,
                    !.pre2 = IF last.op = "push" /\ last.s = s THEN last.pre ELSE Snapshot]
      /\ pushed' = [pushed EXCEPT ![s] = Front(@)]

\* stackClear(stack); the call returns only if its loop ends.
Clear(s) ==
  LET r == stackClear(parent, stack[s])
  IN  /\ r.done
      /\ parent' = r.parent
      /\ stack' = [stack EXCEPT ![s] = r.stack]
      /\ last' = Call("clear", s, sentinel, 0, TRUE)
      /\ pushed' = [pushed EXCEPT ![s] = <<>>]

\* stackPeek(stack)
Peek(s) ==
  /\ last' = Call("peek", s, sentinel, stackPeek(stack[s]), TRUE)
  /\ UNCHANGED <<parent, stack, pushed>>

\* stackIsTop(stack, x)
IsTop(s, x) ==
  /\ last' = Call("isTop", s, x, 0, stackIsTop(stack[s], x))
  /\ UNCHANGED <<parent, stack, pushed>>

\* stackHas(stack, x); the call returns only if its loop ends.
Has(s, x) ==
  LET r == stackHas(parent, stack[s], x)
  IN  /\ r.done
      /\ last' = Call("has", s, x, 0, r.val)
      /\ UNCHANGED <<parent, stack, pushed>>

\* stackDepth(x); the call returns only if its loop ends.
Depth(x) ==
  LET r == stackDepth(parent, x)
  IN  /\ r.done
      /\ last' = Call("depth", 0, x, r.val, TRUE)
      /\ UNCHANGED <<parent, stack, pushed>>

\* stackQuery(stack, ...fn); the call returns only if its loop ends.
Query(s, fn) ==
  LET r == stackQuery(parent, stack[s], fn)
  IN  /\ r.done
      /\ last' = Call("query", s, fn, r.val, TRUE)
      /\ UNCHANGED <<parent, stack, pushed>>

\* Variant of the traversal that pops each node it yields.
Iterate_Popping(s) ==
  LET r == stackIterator(parent, stack[s])
      c == stackClear(parent, stack[s])
  IN  /\ r.done
      /\ last' = Call("iterator", s, sentinel, r.val, TRUE)
      /\ parent' = c.parent
      /\ stack' = [stack EXCEPT ![s] = c.stack]
      /\ UNCHANGED pushed

\* [...stackIterator(stack)]: the sequence consumed to its end in one go.
Iterate(s) ==
  LET r == stackIterator(parent, stack[s])
  IN  /\ r.done
      /\ last' = Call("iterator", s, sentinel, r.val, TRUE)
      /\ UNCHANGED <<parent, stack, pushed>>

\* [...stackIterateFrom(x)]
IterateFrom(x) ==
  LET r == stackIterateFrom(parent, x)
  IN  /\ r.done
      /\ last' = Call("iterateFrom", 0, x, r.val, TRUE)
      /\ UNCHANGED <<parent, stack, pushed>>

\* [...stackIterateToParent(x)]
IterateToParent(x) ==
  LET r == stackIterateToParent(parent, x)
  IN  /\ r.done
      /\ last' = Call("iterateToParent", 0, x, r.val, TRUE)
      /\ UNCHANGED <<parent, stack, pushed>>

Next ==
  \/ NodeCreate /\ Idle
  \/ Create /\ Idle
  \/ \E s \in AllocStacks, x \in AllocNodes : Push(s, x) /\ Idle
  \/ \E s \in AllocStacks : Pop(s) /\ Idle
  \/ \E s \in AllocStacks : Clear(s) /\ Idle
  \/ \E s \in AllocStacks : Peek(s) /\ Idle
  \/ \E s \in AllocStacks, x \in AllocNodes : IsTop(s, x) /\ Idle
  \/ \E s \in AllocStacks, x \in AllocNodes : Has(s, x) /\ Idle
  \/ \E x \in AllocNodes : Depth(x) /\ Idle
  \/ \E s \in AllocStacks, fn \in QueryInputs : Query(s, fn) /\ Idle
  \/ \E s \in AllocStacks : Iterate(s) /\ Idle
  \/ \E x \in AllocNodes : IterateFrom(x) /\ Idle
  \/ \E x \in AllocNodes : IterateToParent(x) /\ Idle

Spec == Init /\ [][Next]_vars

-----------------------------------------------------------------------------
(* A stackIterator sequence consumed step by step, with calls in between.  *)
(*                                                                         *)
(* stackIterator is a generator: the call only creates the sequence; the   *)
(* first next() runs "let node = stack.top", every later next() resumes    *)
(* after the yield with "node = node.parent", and each then tests          *)
(* guard(node) and either yields node or ends the sequence.                *)
(*                                                                         *)
(* iter holds the generator's own state (phase, s, node) and a record of   *)
(* what happened to it:                                                    *)
(*   yielded     the nodes yielded so far                                  *)
(*   snap        the chain of the stack when the first next() read top     *)
(*   rest        the chain above the sentinel from the parent of the node  *)
(*               yielded last, when it was yielded                         *)
(*   removed     whether the node yielded last has since been returned by  *)
(*               stackPop: "just" (by the last call), "earlier", or "no"   *)
(*               (also after it was pushed again)                          *)
(*   popsOnly    every call since the first yield was a stackPop           *)
(*   pushesOnly  every call since the first yield was a stackPush onto the *)
(*               traversed stack                                           *)
(*   fresh       the nodes pushed since the first yield                    *)
(*   mark, ahead the number of nodes yielded and the chain from the parent *)
(*               of the node yielded last, at the first of those pushes    *)

\* A behaviour is followed until the sequence has ended, and, once the
\* sequence has yielded a node, for as long as the calls made since were
\* all pops or all pushes onto the traversed stack (the first call that
\* mixes the two is still made).
Followed ==
  /\ iter.phase # "done"
  /\ iter.phase = "suspended" => (iter.popsOnly \/ iter.pushesOnly)

\* const it = stackIterator(stack)
IterCreate(s) ==
  /\ iter.phase = "none"
  /\ iter' = [phase |-> "created", s |-> s, node |-> sentinel,
              yielded |-> <<>>, snap |-> <<>>, rest |-> <<>>,
              removed |-> "no", popsOnly |-> TRUE,
              pushesOnly |-> TRUE, fresh |-> {}, mark |-> 0, ahead |-> <<>>]
  /\ last' = Call("iterCreate", s, sentinel, 0, TRUE)
  /\ UNCHANGED <<parent, stack, pushed>>

\* it.next()
IterNext ==
  /\ iter.phase \in {"created", "suspended"}
  /\ Followed
  /\ LET first == iter.phase = "created"
         n == IF first THEN stack[iter.s].top     \* let node = stack.top
              ELSE parent[iter.node]              \* node = node.parent
     IN  /\ iter' =
              IF guard(n)                         \* while (guard(node)) yield node
                THEN [iter EXCEPT
                        !.phase = "suspended",
                        !.node = n,
                        !.yielded = Append(@, n),
                        !.snap = IF first
                                   THEN stackIterator(parent, stack[iter.s]).val
                                   ELSE @,
                        !.rest = stackIterateToParent(parent, n).val,
                        !.removed = "no"]
                ELSE [iter EXCEPT !.phase = "done"]
         /\ last' = Call("next", iter.s, sentinel, n, guard(n))
  /\ UNCHANGED <<parent, stack, pushed>>

\* stackPush(stack, x), x unlinked, made while the sequence may be held.
LivePush(s, x) ==
  /\ Followed
  /\ Push(s, x)
  /\ iter' =
       IF iter.phase = "suspended"
         THEN [iter EXCEPT
                 !.popsOnly = FALSE,
                 !.pushesOnly = @ /\ s = iter.s,
                 !.removed = IF x = iter.node \/ @ = "no" THEN "no"
                             ELSE "earlier",
                 !.mark = IF iter.fresh = {} THEN Len(iter.yielded) ELSE @,
                 !.ahead = IF iter.fresh = {}
                             THEN stackIterateToParent(parent, iter.node).val
                             ELSE @,
                 !.fresh = @ \cup {x}]
         ELSE iter

\* stackPop(stack), made while the sequence may be held.
LivePop(s) ==
  /\ Followed
  /\ Pop(s)
  /\ iter' =
       IF iter.phase = "suspended"
         THEN [iter EXCEPT
                 !.pushesOnly = FALSE,
                 !.removed = IF stackPop(parent, stack[s]).ret = iter.node
                               THEN "just"
                             ELSE IF @ = "no" THEN "no" ELSE "earlier"]
         ELSE iter

\* stackClear(stack), made while the sequence may be held.
LiveClear(s) ==
  /\ Followed
  /\ Clear(s)
  /\ iter' =
       IF iter.phase = "suspended"
         THEN [iter EXCEPT
                 !.popsOnly = FALSE,
                 !.pushesOnly = FALSE,
                 !.removed = IF iter.node \in Reach(parent, stack[s].top)
                                  \/ @ # "no"
                               THEN "earlier" ELSE "no"]
         ELSE iter

\* The client builds stacks, takes one sequence and makes calls while it
\* consumes it.
NextLive ==
  \/ Followed /\ NodeCreate /\ Idle
  \/ Followed /\ Create /\ Idle
  \/ \E s \in AllocStacks : IterCreate(s)
  \/ IterNext
  \/ \E s \in AllocStacks, x \in AllocNodes : LivePush(s, x)
  \/ \E s \in AllocStacks : LivePop(s)
  \/ \E s \in AllocStacks : LiveClear(s)

SpecLive == Init /\ [][NextLive]_vars

-----------------------------------------------------------------------------
(* Notions the properties are stated in.                                   *)

Last(seq) == seq[Len(seq)]

\* The references met when following parent links from reference n at most
\* k times: <<n, n.parent, n.parent.parent, ...>>.  The walk cannot go on
\* from the sentinel, which has no parent field.
RECURSIVE Walk(_, _, _)
Walk(par, n, k) ==
  IF k <= 0 \/ n = sentinel THEN <<n>>
  ELSE <<n>> \o Walk(par, par[n], k - 1)

\* Following parent links from top exactly count times reaches the
\* sentinel, and no node is met twice on the way.
WellFormed(par, stk) ==
  /\ stk.count >= 0
  /\ LET w == Walk(par, stk.top, stk.count)
     IN  /\ Len(w) = stk.count + 1
         /\ w[Len(w)] = sentinel
         /\ \A i \in 1..stk.count : w[i] # sentinel
         /\ \A i, j \in 1..stk.count : i # j => w[i] # w[j]

\* The stack object s before the last call.
PreStack == last.pre.stack[last.s]

\* What the client had pushed on s and not removed, before the last call.
PrePushed == last.pre.pushed[last.s]

\* The structure of a snapshot is correctly built: every stack's chain is
\* well formed, no node is on two chains, and a node on no chain has no
\* parent.
Correct(snap) ==
  LET chain(s) == Reach(snap.parent, snap.stack[s].top)
  IN  /\ \A s \in DOMAIN snap.stack : WellFormed(snap.parent, snap.stack[s])
      /\ \A s, r \in DOMAIN snap.stack : s # r => chain(s) \cap chain(r) = {}
      /\ \A n \in DOMAIN snap.parent :
           (\A s \in DOMAIN snap.stack : n \notin chain(s))
             => snap.parent[n] = sentinel

-----------------------------------------------------------------------------
(* Misuse: stackPush of a node that is linked.  stackPush checks nothing,  *)
(* so the call does what it always does.                                   *)

Built == Correct(Snapshot)

\* stackPush(stack, x) with x linked in this or another stack.  The call
\* record notes whether the call before was the push of x onto another
\* stack (chained), which stack that was (ret) and the state before it.
MisusePush(s, x) ==
  /\ Linked(x)
  /\ LET r == stackPush(parent, stack[s], x)
     IN  /\ parent' = r.parent
         /\ stack' = [stack EXCEPT ![s] = r.stack]
  /\ LET after == last.op = "push" /\ last.x = x /\ last.s # s
     IN  last' = [Call("push", s, x, IF after THEN last.s ELSE 0, TRUE) EXCEPT
                    !.chained = after,
                    !.pre2 = IF after THEN last.pre ELSE Snapshot]
  /\ pushed' = [pushed EXCEPT ![s] = Append(@, x)]
  /\ UNCHANGED iter

\* A client builds stacks correctly until it makes the mistake of pushing a
\* linked node.  While the structure is damaged, behaviours are followed
\* through the calls that take it apart, stackPop and stackClear, until it
\* is correctly built again.
NextMisuse ==
  \/ Built /\ NodeCreate /\ Idle
  \/ Built /\ Create /\ Idle
  \/ Built /\ \E s \in AllocStacks, x \in AllocNodes : Push(s, x) /\ Idle
  \/ Built /\ \E s \in AllocStacks, x \in AllocNodes : MisusePush(s, x)
  \/ \E s \in AllocStacks : Pop(s) /\ Idle
  \/ \E s \in AllocStacks : Clear(s) /\ Idle

SpecMisuse == Init /\ [][NextMisuse]_vars


-----------------------------------------------------------------------------
(* C1 .. C10                                                               *)

\* C1 (LIFO order): every stackPop on a stack that holds pushed nodes
\* returns the most recently pushed node that has not been removed, so the
\* n pops that follow the pushes p1..pn on an empty stack return pn, ..., p1;
\* and once every pushed node has been popped, count is 0 and stackPeek
\* returns the sentinel.
C1_LifoOrder ==
  last.op = "pop" =>
    /\ PrePushed # <<>> => last.ret = Last(PrePushed)
    /\ pushed[last.s] = <<>> =>
         /\ stack[last.s].count = 0
         /\ stackPeek(stack[last.s]) = sentinel

\* C1 witness: a pop that follows NumNodes pushes returned the last of them,
\* further nodes being left to pop.
C1_Witness ==
  /\ last.op = "pop"
  /\ Len(PrePushed) = NumNodes
  /\ last.ret = Last(PrePushed)
  /\ last.ret # PrePushed[1]

\* C2 (chain invariant): for every stack, count is not negative, and
\* following parent links from top exactly count times reaches the sentinel
\* without meeting a node twice.
C2_ChainInvariant ==
  \A s \in AllocStacks : WellFormed(parent, stack[s])

\* C2 witness: two stacks hold nodes at once, one of them a chain of two,
\* the last call being a push onto the second stack created.
C2_Witness ==
  /\ last.op = "push"
  /\ last.s = NumStacks
  /\ \E s, u \in AllocStacks :
       s # u /\ stack[s].count >= 2 /\ stack[u].count >= 1

\* C3 (empty iff no top): for every stack, count is 0 exactly when top is
\* the sentinel.
C3_CountZeroIffTopEmpty ==
  \A s \in AllocStacks : (stack[s].count = 0) <=> (stack[s].top = sentinel)

\* C3 witness: a stack that held nodes has just become empty by a pop while
\* another stack is not empty.
C3_Witness ==
  /\ last.op = "pop"
  /\ last.ret # sentinel
  /\ stack[last.s].count = 0
  /\ \E u \in AllocStacks : stack[u].top # sentinel

\* C4 (push): stackPush(stack, node) sets node.parent to the previous top,
\* makes node the top and adds exactly 1 to count; after the pushes count is
\* the number of nodes pushed, stackPeek returns the node pushed last, and
\* stackIsTop is true for that node and false for every other node.
C4_PushEffect ==
  last.op = "push" =>
    /\ parent[last.x] = PreStack.top
    /\ stack[last.s].top = last.x
    /\ stack[last.s].count = PreStack.count + 1
    /\ stack[last.s].count = Len(pushed[last.s])
    /\ stackPeek(stack[last.s]) = Last(pushed[last.s])
    /\ \A y \in AllocNodes :
         stackIsTop(stack[last.s], y) <=> (y = Last(pushed[last.s]))

\* C4 witness: the push of the NumNodes-th node onto one stack.
C4_Witness ==
  /\ last.op = "push"
  /\ Len(pushed[last.s]) = NumNodes
  /\ PreStack.top # sentinel

\* C5 (round trip): stackPush(stack, x) immediately followed by
\* stackPop(stack) returns x, leaves count, top and the parent of every
\* other node as before the push, and leaves x.parent the sentinel.
C5_PushPopRoundTrip ==
  (last.op = "pop" /\ last.chained) =>
    /\ last.ret = last.x
    /\ stack = last.pre2.stack
    /\ \A n \in AllocNodes \ {last.x} : parent[n] = last.pre2.parent[n]
    /\ parent[last.x] = sentinel

\* C5 witness: the round trip on a stack that held nodes before the push.
C5_Witness ==
  /\ last.op = "pop"
  /\ last.chained
  /\ last.pre2.stack[last.s].count >= 1
  /\ last.ret = last.x

\* C6 (clear): after stackClear, count is 0, top is the sentinel, and each
\* of the n nodes that were linked in the stack has the sentinel as parent.
C6_ClearUnlinksAll ==
  last.op = "clear" =>
    LET was == Reach(last.pre.parent, PreStack.top)
    IN  /\ Cardinality(was) = PreStack.count
        /\ was = Elems(PrePushed)
        /\ stack[last.s].count = 0
        /\ stack[last.s].top = sentinel
        /\ \A n \in was : parent[n] = sentinel

\* C6 witness: a clear of a stack that held at least two nodes.
C6_Witness ==
  /\ last.op = "clear"
  /\ PreStack.count >= 2
  /\ stack[last.s].count = 0

\* C7 (empty stack): stackCreate returns count 0 and the sentinel as top; on
\* an empty stack stackPeek returns the sentinel, stackIsTop is false for
\* every node, and stackPop returns the sentinel and changes neither count
\* nor top nor any parent link.
C7_EmptyStack ==
  /\ last.op = "create" => stack[last.s] = [top |-> sentinel, count |-> 0]
  /\ (last.op = "peek" /\ PrePushed = <<>>) => last.ret = sentinel
  /\ (last.op = "isTop" /\ PrePushed = <<>>) => ~last.ok
  /\ (last.op = "pop" /\ PrePushed = <<>>) =>
       /\ last.ret = sentinel
       /\ parent = last.pre.parent
       /\ stack = last.pre.stack
       /\ stack[last.s].count = 0

\* C7 witness: a pop on an empty stack while another stack holds a chain.
C7_Witness ==
  /\ last.op = "pop"
  /\ PrePushed = <<>>
  /\ last.ret = sentinel
  /\ \E u \in AllocStacks : stack[u].count >= 2

\* C8 (depth): stackDepth(node) is the number of parent hops from node to
\* the sentinel, node not counted: the node pushed k-th onto a stack has
\* depth k - 1, and a node in no stack has depth 0.
C8_DepthIsPosition ==
  last.op = "depth" =>
    /\ \A s \in AllocStacks : \A k \in DOMAIN pushed[s] :
         pushed[s][k] = last.x => last.ret = k - 1
    /\ ~Linked(last.x) => last.ret = 0
    /\ Len(Walk(parent, last.x, Fuel)) = last.ret + 2

\* C8 witness: stackDepth of the node pushed last of NumNodes.
C8_Witness ==
  /\ last.op = "depth"
  /\ last.ret = NumNodes - 1
  /\ \E s \in AllocStacks :
       Len(pushed[s]) = NumNodes /\ Last(pushed[s]) = last.x

\* The number of stackPop calls after which node is the top of the stack.
RECURSIVE PopsUntilTop(_, _, _, _)
PopsUntilTop(par, stk, node, fuel) ==
  IF stackPeek(stk) = node \/ fuel = 0 THEN 0
  ELSE LET r == stackPop(par, stk)
       IN  1 + PopsUntilTop(r.parent, r.stack, node, fuel - 1)

\* C9 as claimed: stackDepth(node) equals the number of stackPop calls
\* needed to make node the top of the stack it was pushed onto.
C9_DepthEqualsPopsToTop ==
  last.op = "depth" =>
    \A s \in AllocStacks :
      last.x \in Elems(pushed[s]) =>
        last.ret = PopsUntilTop(parent, stack[s], last.x, Fuel)

\* C9 as amended: for the node pushed k-th of n, stackDepth(node) is k - 1
\* and the number of stackPop calls needed to make it the top is n - k:
\* the two add up to n - 1.
C9_DepthPlusPopsToTop ==
  last.op = "depth" =>
    \A s \in AllocStacks :
      last.x \in Elems(pushed[s]) =>
        /\ last.ret + PopsUntilTop(parent, stack[s], last.x, Fuel)
             = Len(pushed[s]) - 1
        /\ \A k \in DOMAIN pushed[s] :
             pushed[s][k] = last.x =>
               PopsUntilTop(parent, stack[s], last.x, Fuel) = Len(pushed[s]) - k

\* C9 witness: stackDepth of the bottom node of NumNodes, which NumNodes - 1
\* pops make the top.
C9_Witness ==
  /\ last.op = "depth"
  /\ last.ret = 0
  /\ \E s \in AllocStacks :
       /\ Len(pushed[s]) = NumNodes
       /\ pushed[s][1] = last.x
       /\ PopsUntilTop(parent, stack[s], last.x, Fuel) = NumNodes - 1

\* C10 (has): with the default comparator stackHas(stack, x) is true exactly
\* when x is reachable from top by parent links: true for every node pushed
\* and not removed, false for a node just popped and for every node after a
\* clear.
C10_HasIffReachable ==
  /\ last.op = "has" =>
       /\ last.ok <=> (last.x \in Reach(parent, stack[last.s].top))
       /\ last.ok <=> (last.x \in Elems(pushed[last.s]))
  /\ (last.op = "pop" /\ last.ret # sentinel) =>
       stackHas(parent, stack[last.s], last.ret) = [done |-> TRUE, val |-> FALSE]
  /\ last.op = "clear" =>
       \A x \in AllocNodes :
         stackHas(parent, stack[last.s], x) = [done |-> TRUE, val |-> FALSE]

\* C10 witness: stackHas found a node that is below the top.
C10_Witness ==
  /\ last.op = "has"
  /\ last.ok
  /\ last.x # stack[last.s].top
  /\ Len(pushed[last.s]) = NumNodes

-----------------------------------------------------------------------------
(* C11 .. C14, C19: complete calls under correct usage.                    *)

RECURSIVE Reverse(_)
Reverse(seq) ==
  IF seq = <<>> THEN <<>> ELSE Append(Reverse(Tail(seq)), Head(seq))

\* The nodes reachable from the top of some stack, in a recorded state.
LinkedSet(snap) ==
  UNION {Reach(snap.parent, snap.stack[s].top) : s \in DOMAIN snap.stack}

\* The calls that are documented as reading only.
ReadOnlyOps ==
  {"peek", "isTop", "has", "depth", "query",
   "iterator", "iterateFrom", "iterateToParent"}

\* C11 (query): stackQuery returns exactly the nodes reachable from top that
\* satisfy every given predicate; with no predicate all linked nodes, as
\* many as count; with an always-false predicate the empty set; with an
\* always-true predicate all linked nodes.
C11_QueryIsFilter ==
  last.op = "query" =>
    LET linked == Reach(parent, stack[last.s].top)
    IN  /\ last.ret =
             {n \in linked : \A i \in DOMAIN last.x : Holds(last.x[i], n)}
        /\ last.x = <<>> =>
             /\ last.ret = Elems(pushed[last.s])
             /\ Cardinality(last.ret) = stack[last.s].count
        /\ "false" \in Elems(last.x) => last.ret = {}
        /\ last.x \in {<<"true">>, <<"true", "true">>} =>
             last.ret = Elems(pushed[last.s])

\* C11 witness: a query with two predicates over a stack of NumNodes nodes
\* keeps a node and drops a node that satisfies only one of them.
C11_Witness ==
  /\ last.op = "query"
  /\ last.x = <<"true", "odd">>
  /\ Len(pushed[last.s]) = NumNodes
  /\ last.ret # {}
  /\ last.ret # Elems(pushed[last.s])

\* C12 (traversal order): with nodes p1..pn pushed, stackIterator yields
\* pn, ..., p1; stackIterateFrom(pk) yields pk, ..., p1, which is the
\* stackIterator sequence when pk is the top; stackIterateToParent(pk)
\* yields pk-1, ..., p1, the stackIterateFrom(pk) sequence without its
\* first element.
C12_TraversalOrder ==
  /\ last.op = "iterator" => last.ret = Reverse(pushed[last.s])
  /\ last.op = "iterateFrom" =>
       /\ \A s \in AllocStacks : \A k \in DOMAIN pushed[s] :
            pushed[s][k] = last.x =>
              /\ last.ret = Reverse(SubSeq(pushed[s], 1, k))
              /\ k = Len(pushed[s]) =>
                   last.ret = stackIterator(parent, stack[s]).val
       /\ ~Linked(last.x) => last.ret = <<last.x>>
  /\ last.op = "iterateToParent" =>
       /\ \A s \in AllocStacks : \A k \in DOMAIN pushed[s] :
            pushed[s][k] = last.x =>
              last.ret = Reverse(SubSeq(pushed[s], 1, k - 1))
       /\ last.ret = Tail(stackIterateFrom(parent, last.x).val)

\* C12 witness: stackIterateToParent of the middle node of three yields the
\* bottom node alone.
C12_Witness ==
  /\ last.op = "iterateToParent"
  /\ \E s \in AllocStacks :
       /\ Len(pushed[s]) = 3
       /\ pushed[s][2] = last.x
       /\ last.ret = <<pushed[s][1]>>

\* C13 (linked or unlinked): every node is either reachable from the top
\* of exactly one stack, or has the sentinel as parent, is the top of no
\* stack and is the parent of no node; only stackPush links a node and only
\* stackPop and stackClear unlink one.
C13_LinkedOrUnlinked ==
  /\ \A n \in AllocNodes :
       LET owners == {s \in AllocStacks : n \in Reach(parent, stack[s].top)}
       IN  \/ Cardinality(owners) = 1
           \/ /\ owners = {}
              /\ parent[n] = sentinel
              /\ \A s \in AllocStacks : stack[s].top # n
              /\ \A m \in AllocNodes : parent[m] # n
  /\ LinkedSet(Snapshot) \ LinkedSet(last.pre) # {} =>
       /\ last.op = "push"
       /\ LinkedSet(Snapshot) \ LinkedSet(last.pre) = {last.x}
  /\ LinkedSet(last.pre) \ LinkedSet(Snapshot) # {} =>
       last.op \in {"pop", "clear"}

\* C13 witness: a pop has unlinked the node it returned while both stacks
\* still hold a node.
C13_Witness ==
  /\ last.op = "pop"
  /\ last.ret \in LinkedSet(last.pre) \ LinkedSet(Snapshot)
  /\ \A s \in Stacks : s \in AllocStacks /\ stack[s].top # sentinel

\* C14 (read-only calls): stackPeek, stackIsTop, stackHas, stackDepth,
\* stackQuery and a complete stackIterator, stackIterateFrom or
\* stackIterateToParent leave top, count and every parent link unchanged.
C14_ReadOnly ==
  last.op \in ReadOnlyOps =>
    /\ parent = last.pre.parent
    /\ stack = last.pre.stack

\* C14 witness: a complete stackIterator over a chain of NumNodes nodes.
C14_Witness ==
  /\ last.op = "iterator"
  /\ Len(last.ret) = NumNodes
  /\ stack[last.s].count = NumNodes

\* C19 (isolation): stackPush, stackPop and stackClear on one stack leave
\* top and count of every other stack and the parent of every node linked
\* in another stack unchanged.
C19_Isolation ==
  last.op \in {"push", "pop", "clear"} =>
    \A u \in AllocStacks \ {last.s} :
      /\ stack[u] = last.pre.stack[u]
      /\ \A n \in Reach(last.pre.parent, last.pre.stack[u].top) :
           parent[n] = last.pre.parent[n]

\* C19 witness: a clear of one stack while another stack holds a chain of
\* two nodes.
C19_Witness ==
  /\ last.op = "clear"
  /\ last.pre.stack[last.s].count >= 1
  /\ \E u \in AllocStacks \ {last.s} : stack[u].count >= 2

-----------------------------------------------------------------------------
(* C15, C20: a stackIterator sequence consumed step by step.               *)

\* The sequence has ended on the next() that followed the stackPop of the
\* node yielded last, all calls since the first yield having been pops.
EndedAfterPop ==
  /\ iter.phase = "done"
  /\ iter.removed = "just"
  /\ iter.popsOnly

\* What such a sequence is claimed to show, but for the comparison with the
\* snapshot: the last next() yielded nothing, the stack now holds exactly
\* the former ancestors of the popped node, and the snapshot taken at the
\* start is the nodes yielded followed by those ancestors.
EndedEarly ==
  /\ last.op = "next"
  /\ ~last.ok
  /\ iter.yielded # <<>>
  /\ Last(iter.yielded) = iter.node
  /\ stackIterator(parent, stack[iter.s]).val = iter.rest
  /\ iter.snap = iter.yielded \o iter.rest

\* Once the node yielded last has been returned by stackPop (and not been
\* pushed again), the parent that the next() will read is the sentinel.
PoppedNodeEndsSequence ==
  (iter.phase = "suspended" /\ iter.removed # "no") =>
    ~guard(parent[iter.node])

\* C15 as claimed: when the node x just yielded is removed by stackPop
\* before the sequence is advanced, the sequence ends without yielding a
\* further node although the stack still holds all former ancestors of x,
\* and the sequence has yielded fewer nodes than the snapshot of the stack
\* taken at its start.
C15_PopEndsSequenceFewer ==
  /\ PoppedNodeEndsSequence
  /\ EndedAfterPop =>
       /\ EndedEarly
       /\ Len(iter.yielded) < Len(iter.snap)

\* C15 as amended: as claimed, but the sequence has yielded fewer nodes than
\* the snapshot exactly when x had an ancestor; when x was the bottom node
\* the sequence has yielded every node of the snapshot.
C15_PopEndsSequence ==
  /\ PoppedNodeEndsSequence
  /\ EndedAfterPop =>
       /\ EndedEarly
       /\ iter.rest # <<>> => Len(iter.yielded) < Len(iter.snap)
       /\ iter.rest = <<>> => iter.yielded = iter.snap

\* C15 witness: the top of a chain of three was yielded and popped, and the
\* sequence ended with its two ancestors still in the stack.
C15_Witness ==
  /\ EndedAfterPop
  /\ Len(iter.yielded) = 1
  /\ Len(iter.rest) = 2
  /\ stack[iter.s].count = 2

\* C20 (pushes during traversal): when unlinked nodes are pushed onto the
\* traversed stack after the sequence has yielded a node, the nodes still to
\* come stay the ancestors the last yielded node had before the pushes, the
\* sequence ends having yielded exactly them, and no pushed node is yielded.
C20_PushesNotObserved ==
  /\ (iter.phase = "suspended" /\ iter.pushesOnly /\ iter.fresh # {}) =>
       /\ stackIterateToParent(parent, iter.node).val = iter.rest
       /\ Elems(iter.yielded) \cap iter.fresh = {}
  /\ (iter.phase = "done" /\ iter.pushesOnly /\ iter.fresh # {}) =>
       /\ SubSeq(iter.yielded, iter.mark + 1, Len(iter.yielded)) = iter.ahead
       /\ iter.yielded = iter.snap
       /\ Elems(iter.yielded) \cap iter.fresh = {}

\* C20 witness: a sequence has ended after a node was pushed while it was
\* suspended on a node that had an ancestor.
C20_Witness ==
  /\ iter.phase = "done"
  /\ iter.pushesOnly
  /\ iter.fresh # {}
  /\ iter.ahead # <<>>
  /\ stack[iter.s].count = NumNodes

-----------------------------------------------------------------------------
(* C16, C17, C18: stackPush of a linked node, and taking the damaged       *)
(* structure apart.  A loop of the source "never terminates" when its      *)
(* operator returns done = FALSE: the walk has then made more steps than   *)
(* there are nodes without meeting the sentinel, so it is on a cycle.      *)

\* The last call pushed onto s a node that was on s's own chain, the
\* structure having been correctly built before.
PushedOwnNode ==
  /\ last.op = "push"
  /\ Correct(last.pre)
  /\ last.x \in Reach(last.pre.parent, PreStack.top)

\* A parent cycle is reachable from reference n.
CycleFrom(par, n) ==
  \E m \in Reach(par, n) : m \in Reach(par, par[m])

\* C16 (misuse creates a cycle): after stackPush(stack, a) with a on the
\* stack's own chain (the top or an ancestor of it), a parent cycle through a
\* is reachable from stack.top; stackIterator, stackHas for a node that is
\* not on the chain, and stackQuery never terminate on the stack; and count
\* is not the number of distinct nodes reachable from top.
C16_MisuseCycle ==
  PushedOwnNode =>
    LET stk == stack[last.s]
        chain == Reach(parent, stk.top)
    IN  /\ CycleFrom(parent, stk.top)
        /\ last.x \in Reach(parent, parent[last.x])
        /\ ~stackIterator(parent, stk).done
        /\ \A y \in AllocNodes \ chain : ~stackHas(parent, stk, y).done
        /\ \A fn \in QueryInputs : ~stackQuery(parent, stk, fn).done
        /\ stk.count # Cardinality(chain)

\* C16 witness: an ancestor of the top (not the top itself) was pushed back
\* onto its stack while another node was on no chain.
C16_Witness ==
  /\ PushedOwnNode
  /\ last.x # PreStack.top
  /\ AllocNodes \ Reach(parent, stack[last.s].top) # {}
  /\ ~stackIterator(parent, stack[last.s]).done

\* The last call pushed x onto stack s2 = last.s right after x, until then
\* on no chain of a correctly built structure, had been pushed onto another
\* stack s1 = last.ret.
PushedOnTwo ==
  /\ last.op = "push"
  /\ last.chained
  /\ Correct(last.pre2)
  /\ last.x \notin LinkedSet(last.pre2)

\* C17 as claimed: after stackPush(s1, x) followed by stackPush(s2, x), each
\* of s1 and s2 violates the invariant that following parent links from top
\* exactly count times reaches the sentinel.
C17_BothViolateChain ==
  PushedOnTwo =>
    /\ ~WellFormed(parent, stack[last.ret])
    /\ ~WellFormed(parent, stack[last.s])

\* C17 (amended): after stackPush(s1, x) followed by stackPush(s2, x), x is
\* the top of both stacks and its one parent field holds s2's old top; s2
\* satisfies the invariant that following parent links from top exactly
\* count times reaches the sentinel, and s1 violates it exactly when s1 and
\* s2 held different numbers of nodes before the two pushes.
C17_SharedNode ==
  PushedOnTwo =>
    LET s1 == last.ret
        s2 == last.s
    IN  /\ stack[s1].top = last.x
        /\ stack[s2].top = last.x
        /\ parent[last.x] = last.pre2.stack[s2].top
        /\ WellFormed(parent, stack[s2])
        /\ ~WellFormed(parent, stack[s1])
             <=> last.pre2.stack[s1].count # last.pre2.stack[s2].count

\* C17 witness: x was pushed onto a stack holding one node and then onto an
\* empty stack, and the first stack's chain no longer has count links.
C17_Witness ==
  /\ PushedOnTwo
  /\ last.pre2.stack[last.ret].count = 1
  /\ last.pre2.stack[last.s].count = 0
  /\ ~WellFormed(parent, stack[last.ret])
  /\ WellFormed(parent, stack[last.s])

\* The number of nodes whose parent is not the sentinel.
LinkCount(par) == Cardinality({n \in DOMAIN par : par[n] # sentinel})

\* C18 (stackClear terminates): in every state, damaged ones included,
\* stackClear of any stack returns, and on return the stack's top is the
\* sentinel; each stackPop either leaves top the sentinel or strictly
\* reduces the number of nodes whose parent is not the sentinel.
C18_ClearTerminates ==
  /\ \A s \in AllocStacks :
       LET r == stackClear(parent, stack[s])
       IN  r.done /\ r.stack.top = sentinel
  /\ \A s \in AllocStacks :
       LET r == stackPop(parent, stack[s])
       IN  r.stack.top = sentinel \/ LinkCount(r.parent) < LinkCount(parent)
  /\ last.op = "pop" =>
       \/ stack[last.s].top = sentinel
       \/ LinkCount(parent) < LinkCount(last.pre.parent)
  /\ last.op = "clear" => stack[last.s].top = sentinel

\* C18 witness: stackClear has returned on a stack whose chain ran into a
\* parent cycle, leaving its top the sentinel.
C18_Witness ==
  /\ last.op = "clear"
  /\ CycleFrom(last.pre.parent, PreStack.top)
  /\ stack[last.s].top = sentinel

====
